---- MODULE Spec2Model ----
(***************************************************************************)
(* Model of src/arranger.py: the rule-driven Preview / Apply / Undo engine *)
(* of the file arranger, together with the Qt event loop that drives it.   *)
(*                                                                         *)
(* A path is a record [dir, name]: dir is the sequence of directory        *)
(* components as pathlib keeps them (".." is NOT collapsed by pathlib),    *)
(* name is [base, tags, ext] where tags is the sequence of disambiguation  *)
(* suffixes that were appended to the stem: <<"n", i>> stands for " (i)"   *)
(* and <<"u", i>> for " (undone i)".  The filesystem fs maps the resolved  *)
(* path of every existing regular file to the identity of its content.     *)
(***************************************************************************)
EXTENDS Integers, Sequences, FiniteSets, TLC

\* ------------------------------------------------------------------ bounds
MaxExternal == 1   \* external filesystem changes (create / delete / chmod) per run
MaxDepth == 2      \* nesting depth of apply_moves frames re-entered through processEvents
MaxClock == 1      \* last value of the one-second clock behind datetime.now()
MaxBatches == 2    \* calls of apply_moves that start a batch, per run
MaxContent == 4    \* content identities available to files (initial + externally created)

None == "none"

\* a string that is empty or absent (falsy in Python): no folder, no target setting
NoPath == <<>>

\* ------------------------------------------------------------------ names and paths
MkName(b, e) == [base |-> b, tags |-> <<>>, ext |-> e]
MkPath(d, n) == [dir |-> d, name |-> n]

\* pathlib: candidate.with_name(f"{p.stem} ({i}){p.suffix}")
WithNumber(p, i) == [p EXCEPT !.name.tags = Append(@, <<"n", i>>)]

\* mutant: the suffix is left out of the new name
WithUndone_NoSuffix(p, i) == [p EXCEPT !.name.tags = Append(@, <<"u", i>>), !.name.ext = ""]

\* pathlib: candidate.with_name(f"{p.stem} (undone {i}){p.suffix}")
WithUndone(p, i) == [p EXCEPT !.name.tags = Append(@, <<"u", i>>)]

\* str.lower() on a file suffix
Lower(e) == IF e = ".JPG" THEN ".jpg" ELSE IF e = ".PDF" THEN ".pdf" ELSE e

\* Path.resolve() on a directory: ".." steps are collapsed (no symlinks in the model)
RECURSIVE ResolveDir(_)
ResolveDir(d) ==
    IF d = <<>> THEN <<>>
    ELSE LET front == ResolveDir(SubSeq(d, 1, Len(d) - 1))
             last == d[Len(d)]
         IN IF last = ".."
               THEN IF front = <<>> THEN <<>> ELSE SubSeq(front, 1, Len(front) - 1)
               ELSE Append(front, last)

\* Path.resolve() on a file path
Resolve(p) == [p EXCEPT !.dir = ResolveDir(@)]

IsPrefix(s, t) == Len(s) <= Len(t) /\ SubSeq(t, 1, Len(s)) = s

\* mutant: no file is taken to be inside the target subtree
InParents_Never(tgt, f) == FALSE

\* "tgt in f.parents": purely lexical, f.parents are the proper ancestors of f
InParents(tgt, f) == IsPrefix(tgt, f.dir)

\* ------------------------------------------------------------------ configuration (rules.yaml)
Rule(n, e, m) == [name |-> n, ext |-> e, move_to |-> m]

\* no target setting; ".jpg" is in the extension sets of both rules
CfgDefault ==
    [target |-> NoPath,
     rules |-> << Rule("img", {".JPG"}, <<"Images">>),
                  Rule("doc", {".pdf", ".jpg"}, <<"PDFs">>) >>]

\* relative target; the second rule sends its files one level above the organization root
CfgUp ==
    [target |-> <<"Organized">>,
     rules |-> << Rule("img", {".jpg"}, <<"Images">>),
                  Rule("doc", {".pdf"}, <<"..">>) >>]

Folders == { <<"A">>, <<"A", "sub">> }

\* ------------------------------------------------------------------ state
VARIABLES
    CONFIG,           \* rules.yaml, loaded once
    fs,               \* resolved path of every regular file |-> identity of its content
    dirs,             \* resolved paths of the existing directories
    readonly,         \* existing directories whose entries cannot be added or removed
    now,              \* the clock, in whole seconds
    ext,              \* number of external filesystem changes so far
    batches,          \* number of batches started so far
    selected_folder,  \* module global
    heap,             \* list objects a plan lives in: object id |-> list of (src, dest, rule name)
    PLANNED,          \* module global: the id of the list object it is bound to
    LAST_MOVES,       \* module global: list of (final_path, original_path)
    apply_btn,        \* apply_btn.isEnabled()
    undo_btn,         \* undo_btn.isEnabled()
    progress,         \* the QProgressBar: [value, max, visible]
    logs,             \* content of each file under logs/, keyed by its timestamp
    stack,            \* apply_moves frames in progress, innermost last
    last              \* what the most recent step did and reported (print, preview list)

vars == << CONFIG, fs, dirs, readonly, now, ext, batches, batches, selected_folder, heap, PLANNED,
           LAST_MOVES, apply_btn, undo_btn, progress, logs, stack, last >>

\* ------------------------------------------------------------------ the filesystem
\* Path.exists() / Path.is_file() on a lexical path
Exists(files, p) == Resolve(p) \in DOMAIN files

Prefixes(d) == { SubSeq(d, 1, k) : k \in 1..Len(d) }

Parent(d) == SubSeq(d, 1, Len(d) - 1)

\* Path.mkdir(parents=True, exist_ok=True): the directories it has to create
Missing(ds, d) == { ResolveDir(x) : x \in Prefixes(d) } \ ds

\* ... it raises (PermissionError) when a missing directory has to be created inside
\* a read-only directory
MkdirFails(ds, ro, d) == \E m \in Missing(ds, d) : Parent(m) \in ro

Mkdir(ds, d) == ds \cup Missing(ds, d)

\* shutil.move(src, dst) for a dst that does not exist: os.rename, and on any OSError
\* of it copy2(src, dst) followed by os.unlink(src).  The result is
\* [files, err]: the filesystem afterwards and the exception raised (None: success).
\*  - src missing: rename and copy2 both raise FileNotFoundError, nothing changes;
\*  - dst directory read-only: rename and copy2 both raise PermissionError, nothing changes;
\*  - src directory read-only: rename raises, copy2 succeeds, unlink raises
\*    PermissionError: the copy stays at dst and the file stays at src;
\*  - otherwise the file is at dst only; a file that was at dst is replaced.
Put(files, q, c) == [x \in DOMAIN files \cup {q} |-> IF x = q THEN c ELSE files[x]]

Drop(files, q) == [x \in DOMAIN files \ {q} |-> files[x]]

ShutilMove(files, ro, src, dst) ==
    LET s == Resolve(src)
        d == Resolve(dst)
    IN  IF s \notin DOMAIN files
           THEN [files |-> files, err |-> "FileNotFoundError"]
        ELSE IF d.dir \in ro
           THEN [files |-> files, err |-> "PermissionError"]
        ELSE IF s.dir \in ro
           THEN [files |-> Put(files, d, files[s]), err |-> "PermissionError"]
        ELSE [files |-> Put(Drop(files, s), d, files[s]), err |-> None]

\* lines 145-149: the first of dstf, "stem (1)suffix", "stem (2)suffix", ... that does not exist
RECURSIVE NumberedFrom(_, _, _)
NumberedFrom(files, dstf, i) ==
    IF ~Exists(files, WithNumber(dstf, i)) THEN WithNumber(dstf, i)
    ELSE NumberedFrom(files, dstf, i + 1)

\* mutant: the planned destination is used without looking
ApplyCandidate_Unchecked(files, dstf) == dstf

ApplyCandidate(files, dstf) ==
    IF ~Exists(files, dstf) THEN dstf ELSE NumberedFrom(files, dstf, 1)

\* lines 239-243: the first of original, "stem (undone 1)suffix", ... that does not exist
RECURSIVE UndoneFrom(_, _, _)
UndoneFrom(files, original, i) ==
    IF ~Exists(files, WithUndone(original, i)) THEN WithUndone(original, i)
    ELSE UndoneFrom(files, original, i + 1)

\* mutant: the "(undone i)" name is used even when the original path is free
UndoCandidate_AlwaysVariant(files, original) == UndoneFrom(files, original, 1)

UndoCandidate(files, original) ==
    IF ~Exists(files, original) THEN original ELSE UndoneFrom(files, original, 1)

\* ------------------------------------------------------------------ planning
\* _resolve_target(src)
ResolveTarget(src) ==
    IF CONFIG.target # NoPath THEN src \o CONFIG.target ELSE src \o <<"Organized">>

\* src.rglob("*") yields the files of the tree directory by directory; the order
\* of the model is a fixed total order on paths (ascending PathKey)
DirOrder ==
    << <<"A">>, <<"A", "Organized">>, <<"A", "Organized", "Images">>,
       <<"A", "Organized", "PDFs">>, <<"A", "sub">>, <<"A", "sub", "Organized">>,
       <<"A", "sub", "Organized", "Images">>, <<"A", "sub", "Organized", "PDFs">> >>

AllDirs == { DirOrder[k] : k \in 1..Len(DirOrder) }

DirKey(d) == CHOOSE k \in 1..Len(DirOrder) : DirOrder[k] = d

BaseKey(b) == IF b = "a" THEN 1 ELSE IF b = "b" THEN 2 ELSE 3

ExtKey(e) ==
    IF e = ".jpg" THEN 1 ELSE IF e = ".JPG" THEN 2 ELSE IF e = ".pdf" THEN 3
    ELSE IF e = ".PDF" THEN 4 ELSE 5

RECURSIVE TagsKey(_)
TagsKey(t) ==
    IF t = <<>> THEN 0
    ELSE TagsKey(SubSeq(t, 1, Len(t) - 1)) * 20
         + (IF t[Len(t)][1] = "n" THEN 0 ELSE 10) + t[Len(t)][2]

PathKey(p) ==
    ((DirKey(p.dir) * 4 + BaseKey(p.name.base)) * 6 + ExtKey(p.name.ext)) * 8000
    + TagsKey(p.name.tags)

RECURSIVE Sorted(_)
Sorted(S) ==
    IF S = {} THEN <<>>
    ELSE LET m == CHOOSE x \in S : \A y \in S : PathKey(x) <= PathKey(y)
         IN <<m>> \o Sorted(S \ {m})

Rglob(files, src) == Sorted({ p \in DOMAIN files : IsPrefix(src, p.dir) })

\* mutant: the loop over the rules goes on after a match (no break)
RECURSIVE MatchFrom_NoBreak(_, _, _, _)
MatchFrom_NoBreak(rules, k, tgt, f) ==
    IF k > Len(rules) THEN <<>>
    ELSE LET r == rules[k]
             exts == { Lower(e) : e \in r.ext }
         IN (IF exts # {} /\ r.move_to # <<>> /\ Lower(f.name.ext) \in exts
                THEN << [src |-> f, dest |-> MkPath(tgt \o r.move_to, f.name), rule |-> r.name] >>
                ELSE <<>>)
            \o MatchFrom_NoBreak(rules, k + 1, tgt, f)

\* lines 76-82: the plan entry of file f, as a sequence of zero or one entries
RECURSIVE MatchFrom(_, _, _, _)
MatchFrom(rules, k, tgt, f) ==
    IF k > Len(rules) THEN <<>>
    ELSE LET r == rules[k]
             exts == { Lower(e) : e \in r.ext }
         IN IF exts # {} /\ r.move_to # <<>> /\ Lower(f.name.ext) \in exts
               THEN << [src |-> f, dest |-> MkPath(tgt \o r.move_to, f.name), rule |-> r.name] >>
               ELSE MatchFrom(rules, k + 1, tgt, f)

\* lines 68-82: the loop over rglob
RECURSIVE PlanOver(_, _, _)
PlanOver(fileseq, k, tgt) ==
    IF k > Len(fileseq) THEN <<>>
    ELSE (IF InParents(tgt, fileseq[k]) THEN <<>>
          ELSE MatchFrom(CONFIG.rules, 1, tgt, fileseq[k]))
         \o PlanOver(fileseq, k + 1, tgt)

Plan(files, src) == PlanOver(Rglob(files, src), 1, ResolveTarget(src))

\* ------------------------------------------------------------------ initial state
PA(b, e) == MkPath(<<"A">>, MkName(b, e))
PSub(b, e) == MkPath(<<"A", "sub">>, MkName(b, e))
POrg(b, e) == MkPath(<<"A", "Organized", "Images">>, MkName(b, e))

\* the rules and the source tree the program is started on
Start(c, t) == [config |-> c, tree |-> t]

InitStates ==
    { Start(CfgDefault,
            (PA("a", ".jpg") :> 1) @@ (PSub("a", ".jpg") :> 2) @@ (PA("b", ".pdf") :> 3)),
      Start(CfgUp,
            (PA("a", ".jpg") :> 1) @@ (PA("b", ".pdf") :> 2) @@ (PA("c", ".txt") :> 3)),
      Start(CfgDefault,
            (POrg("a", ".JPG") :> 1) @@ (PA("a", ".JPG") :> 2) @@ (PSub("b", ".PDF") :> 3)) }

DirsOf(files) ==
    UNION { Prefixes(p.dir) : p \in DOMAIN files } \cup { <<"A">>, <<"A", "sub">> }

\* the QProgressBar as constructed at lines 300-303
ProgressInit == [value |-> -1, max |-> 100, visible |-> FALSE]

Init ==
    /\ \E s \in InitStates : CONFIG = s.config /\ fs = s.tree
    /\ dirs = DirsOf(fs)
    /\ readonly = {}
    /\ now = 0
    /\ ext = 0
    /\ batches = 0
    /\ selected_folder = NoPath
    /\ heap = (0 :> <<>>)
    /\ PLANNED = 0
    /\ LAST_MOVES = <<>>
    /\ apply_btn = FALSE
    /\ undo_btn = FALSE
    /\ progress = ProgressInit
    /\ logs = <<>>
    /\ stack = <<>>
    /\ last = [op |-> "init"]

\* ------------------------------------------------------------------ the event loop
\* A handler runs when the event loop is idle, or when the innermost apply_moves
\* frame is inside QApplication.processEvents() (lines 139, 165)
Top == stack[Len(stack)]

EventsProcessed == IF stack = <<>> THEN TRUE ELSE Top.pc = "events"

\* list objects still referenced by the global or by a running loop
Live(planned, frames) == {planned} \cup { frames[k].obj : k \in 1..Len(frames) }

Collect(h, planned, frames) == [o \in DOMAIN h \cap Live(planned, frames) |-> h[o]]

NewObj(h) == CHOOSE o \in 0..(MaxDepth + 1) : o \notin DOMAIN h /\ \A x \in 0..(o - 1) : x \in DOMAIN h

\* QProgressBar.setValue: a value outside [minimum, maximum] is ignored
SetValue(pb, v) == IF v >= 0 /\ v <= pb.max THEN [pb EXCEPT !.value = v] ELSE pb

\* ------------------------------------------------------------------ choose_folder (lines 42-55)
\* mutant: choosing a folder leaves the Apply button as it is
ChooseFolder_KeepsButton(ready) ==
    /\ ready
    /\ \E folder \in Folders \cup {NoPath} :
          IF folder # NoPath
             THEN selected_folder' = folder
             ELSE UNCHANGED selected_folder
    /\ last' = [op |-> "other"]
    /\ UNCHANGED << CONFIG, fs, dirs, readonly, now, ext, batches, heap, PLANNED, LAST_MOVES,
                    apply_btn, undo_btn, progress, logs, stack >>

ChooseFolder(ready) ==
    /\ ready
    /\ \E folder \in Folders \cup {NoPath} :
          IF folder # NoPath
             THEN /\ selected_folder' = folder
                  /\ apply_btn' = FALSE
             ELSE UNCHANGED << selected_folder, apply_btn >>
    /\ last' = [op |-> "other"]
    /\ UNCHANGED << CONFIG, fs, dirs, readonly, now, ext, batches, heap, PLANNED, LAST_MOVES,
                    undo_btn, progress, logs, stack >>

\* ------------------------------------------------------------------ start_arranging (lines 58-99)
\* Observation: the number of entries the call computed, and whether the step
\* before it was a Preview as well
PreviewReport ==
    [op |-> "start_arranging",
     planned |-> IF selected_folder = NoPath THEN 0 ELSE Len(Plan(fs, selected_folder)),
     again |-> (last.op = "start_arranging")]

\* mutant: planning creates the organization root
StartArranging_MakesTarget(ready) ==
    /\ ready
    /\ selected_folder # NoPath
    /\ dirs' = Mkdir(dirs, ResolveTarget(selected_folder))
    /\ LET o == NewObj(heap)
       IN /\ PLANNED' = o
          /\ heap' = Collect(heap @@ (o :> Plan(fs, selected_folder)), o, stack)
          /\ apply_btn' = (Plan(fs, selected_folder) # <<>>)
    /\ last' = PreviewReport
    /\ UNCHANGED << CONFIG, fs, readonly, now, ext, batches, selected_folder, LAST_MOVES,
                    undo_btn, progress, logs, stack >>

StartArranging(ready) ==
    /\ ready
    /\ IF selected_folder = NoPath
          THEN UNCHANGED << heap, PLANNED, apply_btn >>
          ELSE LET planned == Plan(fs, selected_folder)
               IN IF planned = <<>>
                     THEN /\ apply_btn' = FALSE
                          /\ UNCHANGED << heap, PLANNED >>
                     ELSE LET o == NewObj(heap)
                          IN /\ PLANNED' = o
                             /\ heap' = Collect(heap @@ (o :> planned), o, stack)
                             /\ apply_btn' = TRUE
    /\ last' = PreviewReport
    /\ UNCHANGED << CONFIG, fs, dirs, readonly, now, ext, batches, selected_folder, LAST_MOVES,
                    undo_btn, progress, logs, stack >>

\* ------------------------------------------------------------------ apply_moves (lines 102-214)
\* A frame is one running call of apply_moves: the list object its for loop
\* iterates and the number of items the iterator has handed out (idx), its local
\* variables, its log file (ts names it, lf is what was written to the handle)
\* and pc: "loop" at the head of the for loop, "events" inside processEvents.
Pop(frames) == SubSeq(frames, 1, Len(frames) - 1)

SetTop(frames, f) == [frames EXCEPT ![Len(frames)] = f]

\* file.close(), or the interpreter releasing the handle: what was written through
\* the handle lands at the start of the file as it is on disk by then
Flush(content, lf) ==
    IF Len(lf) >= Len(content) THEN lf ELSE lf \o SubSeq(content, Len(lf) + 1, Len(content))

\* Observation: a batch is "fresh" while every step since the Preview that stored
\* its plan has been a step of that batch (nothing else happened in between).
FreshStart == IF last.op = "start_arranging" THEN last.planned > 0 ELSE FALSE

FreshStill ==
    IF last.op \in {"apply_moves", "apply_item", "apply_done"} THEN last.fresh ELSE FALSE

\* lines 104-126: up to the head of the for loop
ApplyStart(ready) ==
    /\ ready
    /\ IF heap[PLANNED] = <<>>
          THEN /\ last' = [op |-> "apply_moves", outcome |-> "nothing", fresh |-> FALSE]
               /\ UNCHANGED << progress, logs, stack, batches >>
          ELSE /\ Len(stack) < MaxDepth
               /\ batches < MaxBatches
               /\ batches' = batches + 1
               /\ progress' = [value |-> 0, max |-> Len(heap[PLANNED]), visible |-> TRUE]
               /\ logs' = Put(logs, now, <<>>)
               /\ stack' = Append(stack,
                     [obj |-> PLANNED, idx |-> 0, total |-> Len(heap[PLANNED]),
                      moved |-> 0, skipped |-> <<>>, failed |-> <<>>,
                      session_moves |-> <<>>, ts |-> now,
                      lf |-> << <<"[Apply]", now, selected_folder>> >>,
                      pc |-> "loop"])
               /\ last' = [op |-> "apply_moves", outcome |-> "started", fresh |-> FreshStart]
    /\ UNCHANGED << CONFIG, fs, dirs, readonly, now, ext, selected_folder, heap, PLANNED,
                    LAST_MOVES, apply_btn, undo_btn >>

\* mutant: a skipped item leaves no line in the log
Skipped_NoLine(f, srcf) ==
    [f EXCEPT !.idx = @ + 1,
              !.skipped = Append(@, srcf.name),
              !.pc = "events"]

\* lines 135-140: the item is already at its destination; on to the next item
Skipped(f, srcf) ==
    [f EXCEPT !.idx = @ + 1,
              !.skipped = Append(@, srcf.name),
              !.lf = Append(@, <<"SKIPPED", srcf>>),
              !.pc = "events"]

\* lines 154-157 and 164-165: the move succeeded; on to the next item
Moved(f, srcf, candidate) ==
    [f EXCEPT !.idx = @ + 1,
              !.moved = @ + 1,
              !.lf = Append(@, <<"MOVED", srcf, candidate>>),
              !.session_moves = Append(@, <<candidate, srcf>>),
              !.pc = "events"]

\* mutant: a failed move ends the loop
Failed_Break(f, srcf, candidate, err) ==
    [f EXCEPT !.idx = f.total,
              !.failed = Append(@, <<srcf.name, err>>),
              !.lf = Append(@, <<"FAILED", srcf, candidate, err>>),
              !.pc = "events"]

\* mutant: a failed move is remembered for Undo as well
Failed_Recorded(f, srcf, candidate, err) ==
    [f EXCEPT !.idx = @ + 1,
              !.failed = Append(@, <<srcf.name, err>>),
              !.lf = Append(@, <<"FAILED", srcf, candidate, err>>),
              !.session_moves = Append(@, <<candidate, srcf>>),
              !.pc = "events"]

\* lines 158-165: the move raised; the exception is caught, on to the next item
Failed(f, srcf, candidate, err) ==
    [f EXCEPT !.idx = @ + 1,
              !.failed = Append(@, <<srcf.name, err>>),
              !.lf = Append(@, <<"FAILED", srcf, candidate, err>>),
              !.pc = "events"]

\* mutant: the new records are added to the ledger of the batch before
NewLedger_Extended(old, session_moves) == old \o session_moves

\* lines 179-180: LAST_MOVES = session_moves
NewLedger(old, session_moves) == session_moves

\* lines 128-165: one iteration of the for loop, up to the return of processEvents
ApplyItem ==
    /\ stack # <<>>
    /\ Top.idx < Len(heap[Top.obj])
    /\ LET f == Top
           item == heap[f.obj][f.idx + 1]
           srcf == item.src
           dstf == item.dest
       IN IF MkdirFails(dirs, readonly, dstf.dir)
             THEN \* line 129 raises outside any try: the call is left, the slot returns
                  /\ stack' = Pop(stack)
                  /\ logs' = Put(logs, f.ts, Flush(logs[f.ts], f.lf))
                  /\ heap' = Collect(heap, PLANNED, Pop(stack))
                  /\ last' = [op |-> "apply_item", outcome |-> "raised", src |-> srcf,
                              dest |-> dstf, cand |-> dstf, depth |-> Len(stack),
                              fresh |-> FreshStill]
                  /\ UNCHANGED << fs, dirs, progress >>
             ELSE /\ dirs' = Mkdir(dirs, dstf.dir)
                  /\ heap' = heap
                  /\ logs' = logs
                  /\ progress' = SetValue(progress, progress.value + 1)
                  /\ IF Resolve(srcf) = Resolve(dstf)
                        THEN /\ fs' = fs
                             /\ stack' = SetTop(stack, Skipped(f, srcf))
                             /\ last' = [op |-> "apply_item", outcome |-> "skipped",
                                         src |-> srcf, dest |-> dstf, cand |-> dstf,
                                         depth |-> Len(stack), fresh |-> FreshStill]
                        ELSE LET candidate == ApplyCandidate(fs, dstf)
                                 r == ShutilMove(fs, readonly, srcf, candidate)
                             IN /\ fs' = r.files
                                /\ IF r.err = None
                                      THEN stack' = SetTop(stack, Moved(f, srcf, candidate))
                                      ELSE stack' = SetTop(stack, Failed(f, srcf, candidate, r.err))
                                /\ last' = [op |-> "apply_item",
                                            outcome |-> IF r.err = None THEN "moved" ELSE "failed",
                                            src |-> srcf, dest |-> dstf, cand |-> candidate,
                                            depth |-> Len(stack), fresh |-> FreshStill]
    /\ UNCHANGED << CONFIG, readonly, now, ext, batches, selected_folder, PLANNED, LAST_MOVES,
                    apply_btn, undo_btn >>

\* mutant: the plan stays stored after the batch
Cleared_Kept(h, o) == h

\* line 213: PLANNED.clear() empties the list object the global is bound to
Cleared(h, o) == [h EXCEPT ![o] = <<>>]

\* lines 167-214: the iterator is exhausted
ApplyFinish ==
    /\ stack # <<>>
    /\ Top.idx >= Len(heap[Top.obj])
    /\ LET f == Top
           lf == Append(f.lf, <<"SUMMARY", f.moved, Len(f.skipped), Len(f.failed)>>)
       IN /\ logs' = Put(logs, f.ts, Flush(logs[f.ts], lf))
          /\ LAST_MOVES' = NewLedger(LAST_MOVES, f.session_moves)
          /\ undo_btn' = (LAST_MOVES' # <<>>)
          /\ progress' = [progress EXCEPT !.visible = FALSE]
          /\ heap' = Collect(Cleared(heap, PLANNED), PLANNED, Pop(stack))
          /\ apply_btn' = FALSE
          /\ stack' = Pop(stack)
          /\ last' = [op |-> "apply_done", depth |-> Len(stack), moved |-> f.moved,
                      skipped |-> Len(f.skipped), failed |-> Len(f.failed),
                      total |-> f.total, session_moves |-> f.session_moves,
                      replaced |-> Len(LAST_MOVES), fresh |-> FreshStill]
    /\ UNCHANGED << CONFIG, fs, dirs, readonly, now, ext, batches, selected_folder, PLANNED >>

\* ------------------------------------------------------------------ undo_moves (lines 217-261)
\* mutant: the ledger is walked in the order of recording
Reversed_Not(sq) == sq

\* line 232: reversed(LAST_MOVES)
Reversed(sq) == [k \in 1..Len(sq) |-> sq[Len(sq) - k + 1]]

\* lines 232-248: the loop over the entries of moves, from entry k on.
\* st = [files, dirs, restored, failed, trace]; trace records, per entry, the
\* files that existed when its turn came, the candidate that was chosen and the
\* exception that was caught.
RECURSIVE UndoLoop(_, _, _, _)
UndoLoop(moves, k, ro, st) ==
    IF k > Len(moves) THEN st
    ELSE LET final == moves[k][1]
             original == moves[k][2]
         IN IF MkdirFails(st.dirs, ro, original.dir)
               THEN UndoLoop(moves, k + 1, ro,
                       [st EXCEPT !.failed = Append(@, <<final.name, "PermissionError">>),
                                  !.trace = Append(@, [final |-> final, original |-> original,
                                                       cand |-> original, before |-> st.files,
                                                       err |-> "PermissionError"])])
               ELSE LET candidate == UndoCandidate(st.files, original)
                        r == ShutilMove(st.files, ro, final, candidate)
                    IN UndoLoop(moves, k + 1, ro,
                          [files |-> r.files,
                           dirs |-> Mkdir(st.dirs, original.dir),
                           restored |-> IF r.err = None THEN st.restored + 1 ELSE st.restored,
                           failed |-> IF r.err = None THEN st.failed
                                      ELSE Append(st.failed, <<final.name, r.err>>),
                           trace |-> Append(st.trace,
                                       [final |-> final, original |-> original,
                                        cand |-> candidate,
                                        before |-> st.files,
                                        err |-> r.err])])

\* mutant: the entries whose restore failed stay in the ledger
AfterUndo_KeepFailed(moves, trace) ==
    LET kept == SelectSeq(trace, LAMBDA t : t.err # None)
    IN [k \in 1..Len(kept) |-> <<kept[k].final, kept[k].original>>]

\* line 260: LAST_MOVES.clear()
AfterUndo(moves, trace) == <<>>

UndoMoves(ready) ==
    /\ ready
    /\ IF LAST_MOVES = <<>>
          THEN /\ last' = [op |-> "undo_moves", outcome |-> "nothing"]
               /\ UNCHANGED << fs, dirs, LAST_MOVES, undo_btn >>
          ELSE LET st == UndoLoop(Reversed(LAST_MOVES), 1, readonly,
                                  [files |-> fs, dirs |-> dirs, restored |-> 0,
                                   failed |-> <<>>, trace |-> <<>>])
               IN /\ fs' = st.files
                  /\ dirs' = st.dirs
                  /\ LAST_MOVES' = AfterUndo(LAST_MOVES, st.trace)
                  /\ undo_btn' = FALSE
                  /\ last' = [op |-> "undo_moves", outcome |-> "undone",
                              ledger |-> LAST_MOVES, trace |-> st.trace,
                              restored |-> st.restored, failed |-> st.failed,
                              fresh |-> FreshStill]
    /\ UNCHANGED << CONFIG, readonly, now, ext, batches, selected_folder, heap, PLANNED,
                    apply_btn, progress, logs, stack >>

\* ------------------------------------------------------------------ the environment
\* datetime.now() advances to the next second.  The clock only names log files, so
\* a second in which no log file was written is not told apart from the next one.
Tick ==
    /\ now < MaxClock
    /\ now \in DOMAIN logs
    /\ now' = now + 1
    /\ last' = [op |-> "other"]
    /\ UNCHANGED << CONFIG, fs, dirs, readonly, ext, batches, selected_folder, heap, PLANNED,
                    LAST_MOVES, apply_btn, undo_btn, progress, logs, stack >>

UsedContent(files) == { files[p] : p \in DOMAIN files }

\* another program deletes a file
ExternalDelete ==
    /\ stack = <<>>
    /\ ext < MaxExternal
    /\ \E p \in DOMAIN fs : fs' = Drop(fs, p)
    /\ ext' = ext + 1
    /\ last' = [op |-> "other"]
    /\ UNCHANGED << CONFIG, dirs, readonly, now, batches, selected_folder, heap, PLANNED,
                    LAST_MOVES, apply_btn, undo_btn, progress, logs, stack >>

\* the paths the program is about to use: the destinations of the stored plan and
\* the original paths of the ledger
Wanted ==
    { Resolve(heap[PLANNED][k].dest) : k \in 1..Len(heap[PLANNED]) }
    \cup { Resolve(LAST_MOVES[k][2]) : k \in 1..Len(LAST_MOVES) }

\* another program creates a file, in an existing writable directory, at a path
\* the program is about to use
ExternalCreate ==
    /\ stack = <<>>
    /\ ext < MaxExternal
    /\ \E q \in Wanted, c \in 1..MaxContent :
          /\ q.dir \in dirs \ readonly
          /\ q \notin DOMAIN fs
          /\ c \notin UsedContent(fs)
          /\ \A x \in 1..(c - 1) : x \in UsedContent(fs)
          /\ fs' = Put(fs, q, c)
    /\ ext' = ext + 1
    /\ last' = [op |-> "other"]
    /\ UNCHANGED << CONFIG, dirs, readonly, now, batches, selected_folder, heap, PLANNED,
                    LAST_MOVES, apply_btn, undo_btn, progress, logs, stack >>

\* another program (or the user) makes a directory read-only
ExternalChmod ==
    /\ stack = <<>>
    /\ ext < MaxExternal
    /\ \E d \in dirs \ readonly : readonly' = readonly \cup {d}
    /\ ext' = ext + 1
    /\ last' = [op |-> "other"]
    /\ UNCHANGED << CONFIG, fs, dirs, now, batches, selected_folder, heap, PLANNED,
                    LAST_MOVES, apply_btn, undo_btn, progress, logs, stack >>

\* ------------------------------------------------------------------ specifications
\* Spec: the application as the user drives it.  A click reaches its handler only
\* while the button is enabled, and it is handled when the event loop is idle or
\* while a running batch is inside processEvents.
ApplyClicked == ApplyStart(EventsProcessed /\ apply_btn)

UndoClicked == UndoMoves(EventsProcessed /\ undo_btn)

ChooseClicked == ChooseFolder(EventsProcessed)

PreviewClicked == StartArranging(EventsProcessed)

Next ==
    \/ ChooseClicked
    \/ PreviewClicked
    \/ ApplyClicked
    \/ ApplyItem
    \/ ApplyFinish
    \/ UndoClicked
    \/ Tick

Spec == Init /\ [][Next]_vars

\* SpecCore: the four operations called in any order, each run to completion
\* before the next one starts, on a filesystem that other programs change
\* between the calls.
Idle == stack = <<>>

NextCore ==
    \/ ChooseFolder(Idle)
    \/ StartArranging(Idle)
    \/ ApplyStart(Idle)
    \/ ApplyItem
    \/ ApplyFinish
    \/ UndoMoves(Idle)
    \/ Tick
    \/ ExternalDelete
    \/ ExternalCreate
    \/ ExternalChmod

SpecCore == Init /\ [][NextCore]_vars

\* ------------------------------------------------------------------ observations
\* a step of apply_moves or undo_moves, as opposed to a step of the environment
ItemDone == last.op = "apply_item" /\ last.outcome \in {"moved", "failed"}

UndoDone == last.op = "undo_moves" /\ last.outcome = "undone"

TraceOf(l) == { l.trace[k] : k \in 1..Len(l.trace) }

\* the numbered variants of p that a filesystem of this size can make necessary
Numbers(files) == 1..(Cardinality(DOMAIN files) + 1)

\* p with " (i)" (kind "n") or " (undone i)" (kind "u") put between stem and suffix
Variant(p, kind, i) ==
    [dir |-> p.dir,
     name |-> [base |-> p.name.base, tags |-> p.name.tags \o << <<kind, i>> >>,
               ext |-> p.name.ext]]

ContentAt(files, p) == files[Resolve(p)]

\* ------------------------------------------------------------------ C1
\* C1 (collision safety): whenever Apply or Undo moves a file, the path it moves
\* to does not exist at the moment it is chosen: Apply takes the planned
\* destination when it is free and otherwise the first free "stem (i)suffix",
\* Undo takes the original path when it is free and otherwise the first free
\* "stem (undone i)suffix"; and no step of Apply or Undo destroys the content of
\* a file that existed before the step.
C1_ApplyChoice ==
    ItemDone' =>
        /\ ~Exists(fs, last'.cand)
        /\ IF ~Exists(fs, last'.dest)
              THEN last'.cand = last'.dest
              ELSE \E i \in Numbers(fs) :
                      /\ last'.cand = Variant(last'.dest, "n", i)
                      /\ \A j \in 1..(i - 1) : Exists(fs, Variant(last'.dest, "n", j))

C1_UndoChoice ==
    UndoDone' =>
        \A t \in TraceOf(last') :
            /\ ~Exists(t.before, t.cand)
            /\ IF ~Exists(t.before, t.original)
                  THEN t.cand = t.original
                  ELSE \E i \in Numbers(t.before) :
                          /\ t.cand = Variant(t.original, "u", i)
                          /\ \A j \in 1..(i - 1) : Exists(t.before, Variant(t.original, "u", j))

C1_NothingOverwritten ==
    (ItemDone' \/ UndoDone') => UsedContent(fs) \subseteq UsedContent(fs')

C1_CollisionSafety ==
    [][C1_ApplyChoice /\ C1_UndoChoice /\ C1_NothingOverwritten]_vars

\* an Undo that had to take an "(undone i)" variant, for a batch in which Apply
\* had to take a "(i)" variant
C1_Witness ==
    /\ UndoDone
    /\ \E t \in TraceOf(last) : t.err = None /\ t.cand # t.original
    /\ \E t \in TraceOf(last) : t.final.name.tags # <<>>

\* ------------------------------------------------------------------ C2
\* C2 (reversibility): an Undo over the ledger of a batch puts every file of the
\* ledger whose restore is not reported as failed at its original path or at an
\* "(undone i)" variant of it, and away from where the batch had put it; when
\* the files are still where the batch put them and no directory is read-only,
\* no restore fails; the ledger is empty afterwards, and an Undo that follows
\* reports that there is nothing to undo and changes no file.
C2_Restored ==
    UndoDone' =>
        /\ \A t \in TraceOf(last') :
              t.err = None =>
                 /\ \/ t.cand = t.original
                    \/ \E i \in Numbers(fs) : t.cand = Variant(t.original, "u", i)
                 /\ Exists(fs', t.cand)
                 /\ ContentAt(fs', t.cand) = ContentAt(fs, t.final)
                 /\ ~Exists(fs', t.final)
        /\ Len(last'.trace) = Len(LAST_MOVES)
        /\ \A k \in 1..Len(LAST_MOVES) :
              \E t \in TraceOf(last') :
                 t.final = LAST_MOVES[k][1] /\ t.original = LAST_MOVES[k][2]
        /\ (readonly = {} /\ \A k \in 1..Len(LAST_MOVES) : Exists(fs, LAST_MOVES[k][1]))
              => (last'.failed = <<>> /\ last'.restored = Len(LAST_MOVES))
        /\ LAST_MOVES' = <<>>

C2_SecondUndo ==
    (UndoDone /\ last'.op = "undo_moves") =>
        (last'.outcome = "nothing" /\ fs' = fs /\ LAST_MOVES' = <<>>)

C2_Reversibility == [][C2_Restored /\ C2_SecondUndo]_vars

\* an Undo that restored a whole batch of two files
C2_Witness ==
    /\ UndoDone
    /\ last.restored >= 2
    /\ last.restored = Len(last.ledger)
    /\ LAST_MOVES = <<>>

\* ------------------------------------------------------------------ C3
\* C3 (round trip): when a Preview stores a plan, Apply runs that plan to the end
\* and Undo follows, with nothing else happening in between, every file the
\* batch moved is back at exactly its original path (no "(undone i)" variant),
\* the restored count is the moved count of the batch, no restore fails and the
\* ledger is empty.
C3_RoundTrip ==
    [][(last.op = "apply_done" /\ FreshStill /\ UndoDone') =>
          /\ \A t \in TraceOf(last') :
                /\ t.err = None
                /\ t.cand = t.original
                /\ Exists(fs', t.original)
                /\ ContentAt(fs', t.original) = ContentAt(fs, t.final)
          /\ last'.restored = last.moved
          /\ last'.failed = <<>>
          /\ LAST_MOVES' = <<>>]_vars

\* the Undo of a fresh batch that had moved two files
C3_Witness == UndoDone /\ last.fresh /\ last.restored >= 2

\* ------------------------------------------------------------------ C4
\* C4 (per-item failure isolation): when the move of an item fails in Apply, the
\* failure is recorded for that item alone (one more entry in the failed list
\* and one FAILED log line, the moved count, the skipped list and the ledger
\* records of the batch untouched) and the loop goes on with the next item of
\* the unchanged plan, so that a batch that reaches its end has given every
\* item an outcome; in Undo every ledger entry is attempted, each one is counted
\* either as restored or as failed, and the entries that did not fail are
\* restored whatever happened to the others.
TopOf(frames) == frames[Len(frames)]

FailedOnes(l) == { k \in 1..Len(l.trace) : l.trace[k].err # None }

C4_ApplyGoesOn ==
    (last'.op = "apply_item" /\ last'.outcome = "failed") =>
        /\ Len(stack') = Len(stack)
        /\ TopOf(stack').obj = Top.obj
        /\ heap'[Top.obj] = heap[Top.obj]
        /\ TopOf(stack').idx = Top.idx + 1
        /\ TopOf(stack').failed
              = Append(Top.failed, <<last'.src.name, TopOf(stack').failed[Len(Top.failed) + 1][2]>>)
        /\ TopOf(stack').lf[Len(Top.lf) + 1][1] = "FAILED"
        /\ Len(TopOf(stack').lf) = Len(Top.lf) + 1
        /\ TopOf(stack').moved = Top.moved
        /\ TopOf(stack').skipped = Top.skipped
        /\ TopOf(stack').session_moves = Top.session_moves

C4_ApplyCompletes ==
    last'.op = "apply_done" =>
        last'.moved + last'.skipped + last'.failed = last'.total

C4_UndoGoesOn ==
    UndoDone' =>
        /\ Len(last'.trace) = Len(LAST_MOVES)
        /\ Len(last'.failed) = Cardinality(FailedOnes(last'))
        /\ last'.restored = Len(LAST_MOVES) - Cardinality(FailedOnes(last'))
        /\ \A t \in TraceOf(last') :
              t.err = None =>
                 (Exists(fs', t.cand) /\ ContentAt(fs', t.cand) = ContentAt(fs, t.final))

C4_FailureIsolation == [][C4_ApplyGoesOn /\ C4_ApplyCompletes /\ C4_UndoGoesOn]_vars

\* a batch that moved a file after the move of an earlier item had failed
C4_Witness ==
    /\ stack # <<>>
    /\ last.op = "apply_item"
    /\ last.outcome = "moved"
    /\ Top.failed # <<>>

\* an Undo in which one restore failed and another one succeeded
C4_UndoSeen == UndoDone /\ last.failed # <<>> /\ last.restored > 0

\* ------------------------------------------------------------------ C5
\* C5 (partial-failure isolation for directory creation): when the destination
\* directory of the item at hand cannot be created, Apply records that item as
\* failed and goes on with the next item; and a batch in whose plan exactly one
\* item has such a destination ends with moved count = plan size - 1.
NextItem == heap[Top.obj][Top.idx + 1]

AtItem == IF stack = <<>> THEN FALSE ELSE Top.idx < Len(heap[Top.obj])

C5_PartialFailureIsolation ==
    [][(IF AtItem THEN MkdirFails(dirs, readonly, NextItem.dest.dir) ELSE FALSE)
          /\ last'.op = "apply_item"
       => /\ Len(stack') = Len(stack)
          /\ TopOf(stack').idx = Top.idx + 1
          /\ Len(TopOf(stack').failed) = Len(Top.failed) + 1]_vars

\* ------------------------------------------------------------------ C6
\* C6 (at-most-once destination): every successful move of Apply takes the file
\* away from its source and puts its content at the resolved destination; when
\* a batch ends with M moved items its M records name M pairwise distinct
\* destinations, a file exists at each of them and none exists at any of the M
\* original locations, also when planned destinations coincide.
Finals(moves) == { Resolve(moves[k][1]) : k \in 1..Len(moves) }

Originals(moves) == { Resolve(moves[k][2]) : k \in 1..Len(moves) }

C6_EachMove ==
    (last'.op = "apply_item" /\ last'.outcome = "moved") =>
        /\ Exists(fs', last'.cand)
        /\ ContentAt(fs', last'.cand) = ContentAt(fs, last'.src)
        /\ ~Exists(fs', last'.src)
        /\ \A k \in 1..Len(Top.session_moves) :
              Resolve(Top.session_moves[k][1]) # Resolve(last'.cand)

C6_AtEnd ==
    last'.op = "apply_done" =>
        /\ Len(last'.session_moves) = last'.moved
        /\ Cardinality(Finals(last'.session_moves)) = last'.moved
        /\ Finals(last'.session_moves) \subseteq DOMAIN fs'
        /\ Originals(last'.session_moves) \cap DOMAIN fs' = {}
        /\ last'.moved <= last'.total

C6_AtMostOnceDestination == [][C6_EachMove /\ C6_AtEnd]_vars

\* a finished batch with two moved files that had the same planned destination
C6_Witness ==
    /\ last.op = "apply_done"
    /\ last.moved >= 2
    /\ \E j, k \in 1..Len(last.session_moves) :
          /\ j # k
          /\ last.session_moves[j][2].name = last.session_moves[k][2].name
          /\ last.session_moves[j][1].dir = last.session_moves[k][1].dir

\* ------------------------------------------------------------------ C7
\* C7 (no silent loss or duplication): a move that Apply or Undo records as
\* failed leaves the filesystem as it was (the file at its pre-move location,
\* nothing at the intended destination), and no content is ever at two paths.
NoDuplicate == \A p, q \in DOMAIN fs : fs[p] = fs[q] => p = q

C7_NoLossNoDuplication ==
    [][/\ (last'.op = "apply_item" /\ last'.outcome = "failed") => fs' = fs
       /\ (UndoDone' /\ last'.restored = 0) => fs' = fs
       /\ (last'.op \in {"apply_item", "undo_moves"} /\ NoDuplicate) => NoDuplicate']_vars

\* ------------------------------------------------------------------ C8
\* C8 (events between the items of a batch): whatever handlers run inside
\* processEvents, a batch that finishes has given an outcome to every item of
\* the plan it was started on, each item once and in plan order; and when a
\* batch finishes right after a batch that ran nested in it, the ledger still
\* has the records of the files that nested batch moved.
RangeOf(sq) == { sq[k] : k \in 1..Len(sq) }

C8_EveryItemOnce ==
    last'.op = "apply_done" =>
        last'.moved + last'.skipped + last'.failed = last'.total

C8_InPlanOrder ==
    (last'.op = "apply_item" /\ last'.outcome # "raised") =>
        /\ last'.src = heap[Top.obj][Top.idx + 1].src
        /\ TopOf(stack').idx = Top.idx + 1
        /\ Top.idx + 1 <= Top.total

C8_LedgerKeepsRecords ==
    (last.op = "apply_done" /\ last'.op = "apply_done") =>
        RangeOf(last.session_moves) \subseteq RangeOf(LAST_MOVES')

C8_EventsKeepSemantics ==
    [][C8_EveryItemOnce /\ C8_InPlanOrder /\ C8_LedgerKeepsRecords]_vars

\* ------------------------------------------------------------------ C9
\* C9 (prefix validity): when a batch stops before the end of its plan because
\* an exception leaves apply_moves, every file that batch had moved has its
\* record in the ledger that is kept, and the log file of the batch holds its
\* header and one line per item that was processed.
C9_PrefixValidity ==
    [][(last'.op = "apply_item" /\ last'.outcome = "raised") =>
          /\ RangeOf(Top.session_moves) \subseteq RangeOf(LAST_MOVES')
          /\ Len(logs'[Top.ts]) = 1 + Top.idx]_vars

\* ------------------------------------------------------------------ C10
\* C10 (single-generation undo): when a batch over a non-empty plan completes,
\* the ledger is exactly the list of that batch's moves (the MOVED lines of its
\* log, in order), whatever the ledger held before and also when the batch
\* moved nothing; and an Undo changes no file other than those its ledger names,
\* so the files of an earlier batch stay where that batch put them.
RECURSIVE MovedRecords(_)
MovedRecords(lf) ==
    IF lf = <<>> THEN <<>>
    ELSE LET rest == MovedRecords(SubSeq(lf, 1, Len(lf) - 1))
             line == lf[Len(lf)]
         IN IF line[1] = "MOVED" THEN Append(rest, <<line[3], line[2]>>) ELSE rest

C10_LedgerReplaced ==
    last'.op = "apply_done" =>
        /\ LAST_MOVES' = MovedRecords(Top.lf)
        /\ Len(LAST_MOVES') = last'.moved

C10_UndoOnlyLastBatch ==
    UndoDone' =>
        \A p \in DOMAIN fs \ Finals(LAST_MOVES) : p \in DOMAIN fs' /\ fs'[p] = fs[p]

C10_SingleGeneration == [][C10_LedgerReplaced /\ C10_UndoOnlyLastBatch]_vars

\* a batch that moved nothing has replaced the non-empty ledger of the batch before
C10_Witness ==
    /\ last.op = "apply_done"
    /\ last.replaced > 0
    /\ last.moved = 0
    /\ LAST_MOVES = <<>>

\* an Undo after two batches that each moved a file
C10_UndoSeen == UndoDone /\ batches = 2 /\ Cardinality(DOMAIN logs) = 2 /\ last.restored > 0

\* ------------------------------------------------------------------ C11
\* C11 (undo consumes the batch once): an Undo over a non-empty ledger attempts
\* every entry and leaves the ledger empty, whether every restore succeeded or
\* some failed; an Undo over an empty ledger reports that there is nothing to
\* undo and changes neither a file, nor a directory, nor the ledger; so an Undo
\* that follows an Undo retries nothing.
C11_Consumed ==
    (last'.op = "undo_moves" /\ LAST_MOVES # <<>>) =>
        /\ last'.outcome = "undone"
        /\ Len(last'.trace) = Len(LAST_MOVES)
        /\ last'.restored + Len(last'.failed) = Len(LAST_MOVES)
        /\ LAST_MOVES' = <<>>

C11_NothingToUndo ==
    (last'.op = "undo_moves" /\ LAST_MOVES = <<>>) =>
        /\ last'.outcome = "nothing"
        /\ fs' = fs
        /\ dirs' = dirs
        /\ LAST_MOVES' = <<>>

C11_NoRetry ==
    (UndoDone /\ last'.op = "undo_moves") => (last'.outcome = "nothing" /\ fs' = fs)

C11_UndoConsumesOnce == [][C11_Consumed /\ C11_NothingToUndo /\ C11_NoRetry]_vars

\* an Undo in which a restore failed and another one succeeded has emptied the ledger
C11_Witness == UndoDone /\ last.failed # <<>> /\ last.restored > 0 /\ LAST_MOVES = <<>>

\* an Undo over an empty ledger, called while files of an earlier batch are in place
C11_NothingSeen ==
    /\ last.op = "undo_moves"
    /\ last.outcome = "nothing"
    /\ batches > 0
    /\ \E p \in DOMAIN fs : p.dir \notin Folders

\* ------------------------------------------------------------------ C12
\* C12 (idempotent, side-effect-free planning): a Preview creates, moves or
\* deletes no file and no directory, changes no permission, writes no log and
\* leaves the ledger and the Undo button alone; and a Preview that directly
\* follows a Preview of the same folder computes the same number of entries and
\* leaves the same ordered plan stored, with the Apply button as it was.
C12_NoSideEffect ==
    last'.op = "start_arranging" =>
        /\ fs' = fs
        /\ dirs' = dirs
        /\ readonly' = readonly
        /\ logs' = logs
        /\ LAST_MOVES' = LAST_MOVES
        /\ undo_btn' = undo_btn

C12_SamePlan ==
    (last.op = "start_arranging" /\ last'.op = "start_arranging") =>
        /\ last'.planned = last.planned
        /\ heap'[PLANNED'] = heap[PLANNED]
        /\ apply_btn' = apply_btn

C12_IdempotentPlanning == [][C12_NoSideEffect /\ C12_SamePlan]_vars

\* a second Preview in a row, of a tree that holds the files of an earlier batch
\* and a ledger, has planned two files or more
C12_Witness ==
    /\ last.op = "start_arranging"
    /\ last.again
    /\ last.planned >= 2
    /\ LAST_MOVES # <<>>

\* ------------------------------------------------------------------ C13
\* C13 (no self-reprocessing): no entry of a plan that a Preview computes has
\* its source file under the organization root of the selected folder; and
\* when a Preview directly follows a completed batch that ran the plan of the
\* Preview before it, it plans none of the files that batch moved into the
\* organization root.
UnderRoot(p, folder) == IsPrefix(ResolveDir(ResolveTarget(folder)), Resolve(p).dir)

PlanSources(plan) == { Resolve(plan[k].src) : k \in 1..Len(plan) }

C13_NoneUnderRoot ==
    (last'.op = "start_arranging" /\ last'.planned > 0) =>
        \A p \in PlanSources(heap'[PLANNED']) : ~UnderRoot(p, selected_folder)

C13_NoneOfTheBatch ==
    (last.op = "apply_done" /\ FreshStill /\ last'.op = "start_arranging" /\ last'.planned > 0) =>
        \A p \in Finals(last.session_moves) :
            UnderRoot(p, selected_folder) => p \notin PlanSources(heap'[PLANNED'])

Matching(f) ==
    { k \in 1..Len(CONFIG.rules) :
         Lower(f.name.ext) \in { Lower(e) : e \in CONFIG.rules[k].ext } }

FirstMatching(f) == CHOOSE k \in Matching(f) : \A j \in Matching(f) : k <= j

\* the plan the Preview step computed (it is stored only when it is not empty)
Computed == IF last'.planned > 0 THEN heap'[PLANNED'] ELSE <<>>

C14_FirstMatchWins ==
    [][last'.op = "start_arranging" =>
          /\ Len(Computed) = last'.planned
          /\ \A j, k \in 1..Len(Computed) : Computed[j].src = Computed[k].src => j = k
          /\ \A k \in 1..Len(Computed) :
                LET f == Computed[k].src
                IN /\ f \in DOMAIN fs
                   /\ Matching(f) # {}
                   /\ Computed[k].rule = CONFIG.rules[FirstMatching(f)].name
                   /\ Computed[k].dest
                         = MkPath(ResolveTarget(selected_folder)
                                     \o CONFIG.rules[FirstMatching(f)].move_to, f.name)
          /\ \A p \in DOMAIN fs : Matching(p) = {} => p \notin PlanSources(Computed)]_vars

\* a Preview has stored a plan with an entry for a file whose extension is in the
\* sets of two rules, for a tree in which a file matches no rule or is left out
C14_Witness ==
    /\ last.op = "start_arranging"
    /\ last.planned > 0
    /\ \E k \in 1..Len(heap[PLANNED]) : Cardinality(Matching(heap[PLANNED][k].src)) >= 2
    /\ Cardinality(DOMAIN fs) > last.planned

\* ------------------------------------------------------------------ C15
\* C15 (log ownership): a call of Apply that starts a batch creates exactly one
\* log file, and that file is not the log of an earlier batch that has
\* completed; and no step changes the log file of a batch that has completed
\* (a log file that ends with its summary footer), also when the clock has not
\* moved on since.
CompletedLogs == { t \in DOMAIN logs : IF logs[t] = <<>> THEN FALSE
                                       ELSE logs[t][Len(logs[t])][1] = "SUMMARY" }

C15_NewFile ==
    (last'.op = "apply_moves" /\ last'.outcome = "started") =>
        /\ TopOf(stack').ts \notin CompletedLogs
        /\ Cardinality(DOMAIN logs' \ DOMAIN logs) = 1

C15_NeverModifiedAfterwards ==
    \A t \in CompletedLogs : t \in DOMAIN logs' /\ logs'[t] = logs[t]

C15_LogOwnership == [][C15_NewFile /\ C15_NeverModifiedAfterwards]_vars

\* ------------------------------------------------------------------ C16
\* C16 (ledger content): an item whose move succeeds adds the pair (path the
\* file is at now, path it was at) to the records of its batch, after those of
\* the items before it, and a skipped or failed item adds none; when the batch
\* completes the ledger is that list of records: its length is the moved
\* count and its original paths come in the order of the plan.
RECURSIVE IsSubseq(_, _)
IsSubseq(a, b) ==
    IF a = <<>> THEN TRUE
    ELSE IF b = <<>> THEN FALSE
    ELSE IF Head(a) = Head(b) THEN IsSubseq(Tail(a), Tail(b))
    ELSE IsSubseq(a, Tail(b))

C16_Recorded ==
    (last'.op = "apply_item" /\ last'.outcome = "moved") =>
        /\ TopOf(stack').session_moves = Append(Top.session_moves, <<last'.cand, NextItem.src>>)
        /\ Exists(fs', last'.cand)
        /\ ContentAt(fs', last'.cand) = ContentAt(fs, NextItem.src)

C16_NotRecorded ==
    (last'.op = "apply_item" /\ last'.outcome \in {"skipped", "failed"}) =>
        TopOf(stack').session_moves = Top.session_moves

C16_AtEnd ==
    last'.op = "apply_done" =>
        /\ LAST_MOVES' = Top.session_moves
        /\ Len(LAST_MOVES') = Top.moved
        /\ IsSubseq([k \in 1..Len(LAST_MOVES') |-> LAST_MOVES'[k][2]],
                    [k \in 1..Len(heap[Top.obj]) |-> heap[Top.obj][k].src])

C16_LedgerContent == [][C16_Recorded /\ C16_NotRecorded /\ C16_AtEnd]_vars

\* a batch has completed in which an item was moved and another one was skipped
\* or failed: the ledger holds the record of the first one only
C16_Witness ==
    /\ last.op = "apply_done"
    /\ last.moved >= 1
    /\ last.skipped + last.failed >= 1
    /\ LAST_MOVES = last.session_moves
    /\ Len(LAST_MOVES) = last.moved

\* ------------------------------------------------------------------ C17
\* C17 (one outcome per item): every item that a batch processes raises
\* exactly one of the moved count, the skipped list and the failed list by one
\* and the progress value by one; when the batch completes, moved + skipped +
\* failed is the size of the plan, the progress value is the size of the plan,
\* and the log file holds the header, then one MOVED, SKIPPED or FAILED line
\* per item naming the items in plan order, then the summary footer with those
\* three counts.
Outcomes == {"MOVED", "SKIPPED", "FAILED"}

LinesOf(log, kind) == Cardinality({ k \in 1..Len(log) : log[k][1] = kind })

C17_OneOutcome ==
    (last'.op = "apply_item" /\ last'.outcome # "raised") =>
        /\ (TopOf(stack').moved - Top.moved)
              + (Len(TopOf(stack').skipped) - Len(Top.skipped))
              + (Len(TopOf(stack').failed) - Len(Top.failed)) = 1
        /\ TopOf(stack').moved >= Top.moved
        /\ Len(TopOf(stack').skipped) >= Len(Top.skipped)
        /\ Len(TopOf(stack').failed) >= Len(Top.failed)
        /\ progress'.value = progress.value + 1

C17_AtEnd ==
    last'.op = "apply_done" =>
        LET plan == heap[Top.obj]
            log == logs'[Top.ts]
        IN /\ Top.moved + Len(Top.skipped) + Len(Top.failed) = Len(plan)
           /\ progress.value = Len(plan)
           /\ progress.max = Len(plan)
           /\ Len(log) = Len(plan) + 2
           /\ log[1][1] = "[Apply]"
           /\ \A k \in 1..Len(plan) :
                 log[k + 1][1] \in Outcomes /\ log[k + 1][2] = plan[k].src
           /\ log[Len(log)] = <<"SUMMARY", Top.moved, Len(Top.skipped), Len(Top.failed)>>
           /\ LinesOf(log, "MOVED") = Top.moved
           /\ LinesOf(log, "SKIPPED") = Len(Top.skipped)
           /\ LinesOf(log, "FAILED") = Len(Top.failed)

C17_OneOutcomePerItem == [][C17_OneOutcome /\ C17_AtEnd]_vars

\* a batch of two items has completed, one of them moved and one skipped
C17_Witness ==
    /\ last.op = "apply_done"
    /\ last.total >= 2
    /\ last.moved >= 1
    /\ last.skipped >= 1
    /\ progress.value = last.total

\* a batch of two items has completed, one of them moved and one failed
C17_FailedSeen ==
    /\ last.op = "apply_done"
    /\ last.total >= 2
    /\ last.moved >= 1
    /\ last.failed >= 1
    /\ progress.value = last.total

\* ------------------------------------------------------------------ C18
\* C18 (plan consumed once): when a batch completes the stored plan is empty
\* and the Apply button is disabled; only a Preview stores a plan again, so an
\* Apply that directly follows a completed batch finds nothing to apply; and
\* an Apply over an empty plan starts no batch, changes no file and no
\* directory, creates and changes no log file and leaves the ledger and the
\* Undo button as they were.
C18_Consumed ==
    last'.op = "apply_done" => (heap'[PLANNED'] = <<>> /\ ~apply_btn')

C18_OnlyPreviewStores ==
    (heap[PLANNED] = <<>> /\ heap'[PLANNED'] # <<>>) => last'.op = "start_arranging"

C18_NotTwice ==
    (last.op = "apply_done" /\ last'.op = "apply_moves") => last'.outcome = "nothing"

C18_NothingToApply ==
    (last'.op = "apply_moves" /\ heap[PLANNED] = <<>>) =>
        /\ last'.outcome = "nothing"
        /\ fs' = fs
        /\ dirs' = dirs
        /\ logs' = logs
        /\ LAST_MOVES' = LAST_MOVES
        /\ undo_btn' = undo_btn
        /\ stack' = stack
        /\ batches' = batches

C18_PlanConsumedOnce ==
    [][C18_Consumed /\ C18_OnlyPreviewStores /\ C18_NotTwice /\ C18_NothingToApply]_vars

\* an Apply over the plan that the batch before it consumed: nothing is applied
\* and the ledger of that batch is still there
C18_Witness ==
    /\ last.op = "apply_moves"
    /\ last.outcome = "nothing"
    /\ batches > 0
    /\ LAST_MOVES # <<>>
    /\ undo_btn
    /\ Finals(LAST_MOVES) \subseteq DOMAIN fs

\* ------------------------------------------------------------------ C19
\* C19 (undo order): Undo attempts the entries of the ledger one after another
\* from the entry recorded last to the entry recorded first, each entry once:
\* the j-th attempt is for the j-th entry from the end, the first attempt sees
\* the files as they were when Undo was called, and every later attempt sees
\* the file of a restore that succeeded before it at the place it was put.
C19_UndoOrder ==
    [][UndoDone' =>
          LET n == Len(LAST_MOVES)
              trace == last'.trace
          IN /\ Len(trace) = n
             /\ \A j \in 1..n :
                   /\ trace[j].final = LAST_MOVES[n - j + 1][1]
                   /\ trace[j].original = LAST_MOVES[n - j + 1][2]
             /\ trace[1].before = fs
             /\ \A j \in 1..(n - 1) :
                   trace[j].err = None =>
                      /\ Exists(trace[j + 1].before, trace[j].cand)
                      /\ ~Exists(trace[j + 1].before, trace[j].final)]_vars

\* an Undo over a ledger of two entries for different files: the first attempt
\* was for the second entry
C19_Witness ==
    /\ UndoDone
    /\ Len(last.ledger) >= 2
    /\ last.ledger[1] # last.ledger[Len(last.ledger)]
    /\ last.trace[1].final = last.ledger[Len(last.ledger)][1]
    /\ last.trace[1].err = None

\* ------------------------------------------------------------------ C20
\* C20 (button gating): with handlers that run to completion, the Apply button
\* is enabled only while the stored plan is not empty and is the plan that the
\* most recent Preview computed for the folder that is selected: only a
\* Preview that computes a non-empty plan for the selected folder enables the
\* button, storing that plan; while the button stays enabled the stored plan
\* and the selected folder stay as they are unless a Preview stores its plan;
\* a Preview that finds no match leaves the old plan stored and the button
\* disabled; and the Undo button is enabled exactly when the ledger is not
\* empty.
C20_Buttons ==
    /\ apply_btn => heap[PLANNED] # <<>>
    /\ undo_btn <=> (LAST_MOVES # <<>>)

C20_EnabledByPreview ==
    apply_btn' =>
        IF last'.op = "start_arranging"
           THEN /\ selected_folder' = selected_folder
                /\ selected_folder # NoPath
                /\ heap'[PLANNED'] = Plan(fs, selected_folder)
           ELSE /\ apply_btn
                /\ heap'[PLANNED'] = heap[PLANNED]
                /\ selected_folder' = selected_folder

C20_NoMatch ==
    (last'.op = "start_arranging" /\ last'.planned = 0) =>
        (~apply_btn' /\ PLANNED' = PLANNED /\ heap' = heap)

C20_ButtonGating == []C20_Buttons /\ [][C20_EnabledByPreview /\ C20_NoMatch]_vars

\* a Preview that found no match has left the plan of an earlier Preview stored
\* and the Apply button disabled, while the Undo button is enabled for the
\* ledger of a batch
C20_Witness ==
    /\ last.op = "start_arranging"
    /\ last.planned = 0
    /\ selected_folder # NoPath
    /\ heap[PLANNED] # <<>>
    /\ ~apply_btn
    /\ undo_btn
    /\ LAST_MOVES # <<>>

\* the Apply button is enabled for the plan of the selected folder
C20_ApplyEnabled == apply_btn /\ stack = <<>> /\ heap[PLANNED] = Plan(fs, selected_folder)

====
